---------------------------- MODULE Spec2Model ----------------------------
(***************************************************************************)
(* A model of the Kusto schema exporters: the function exporter            *)
(* (export-function-schemas.py), the table exporter                        *)
(* (export-table-schemas.py) and the shared base class                     *)
(* (kusto_export_utils.py).                                                *)
(*                                                                         *)
(* Text is modelled as a sequence of one-character strings, so that the    *)
(* string operations of the source (strip, find, count, replace, the       *)
(* regular-expression substitutions) are computed character by character.  *)
(* Python's None and "" are both falsy and every use the source makes of   *)
(* an optional metadata field is a truthiness test, so an absent field is  *)
(* the empty sequence.  Indices are 1-based; 0 stands for Python's -1.     *)
(***************************************************************************)
EXTENDS Integers, Sequences, FiniteSets, TLC

VARIABLES
    driver,             \* "function" | "table" | "none": which exporter runs
    pc,                 \* position of the run in export_functions / export_tables
    listing,            \* the names the remote listing returned
    idx,                \* number of listed objects whose loop iteration has run
    exported_count,     \* exported_count of the driver loop
    failed_count,       \* failed_count of the driver loop
    exported_functions, \* names of the exported objects, in export order
    create_commands,    \* table driver: <<name, command>> pairs, insertion order
    export_failed_count,\* table driver: failed_count of _export_table_files
    widx,               \* table driver: number of create_commands entries written
    files,              \* the output directory: set of [name, content] files
    readme,             \* README.md: <<>> when absent, else <<[count, failed, names]>>
    exit_code,          \* -1 while running, else the process exit code
    seen,               \* history: what happened to each listed object, in order
    log,                \* history: remote calls and file writes, in order
    arg,                \* specifications of one function: its input
    ret                 \* specifications of one function: its results so far

drvVars == <<driver, pc, listing, idx, exported_count, failed_count,
             exported_functions, create_commands, export_failed_count, widx,
             files, readme, exit_code, seen, log>>
fnVars == <<arg, ret>>
vars == <<driver, pc, listing, idx, exported_count, failed_count,
          exported_functions, create_commands, export_failed_count, widx,
          files, readme, exit_code, seen, log, arg, ret>>

---------------------------------------------------------------------------
(* Bounds of the model.                                                    *)

MaxList == 2        \* longest object listing
MaxParamLen == 6    \* longest parametersField
MaxBodyLen == 5     \* longest function body drawn from the body alphabet
MaxDocLen == 4      \* longest docstring
MaxTailLen == 4     \* longest text after the head of a statement to validate
MaxSchemaLen == 5   \* longest schema string

---------------------------------------------------------------------------
(* Python string operations used by the source.                            *)

\* str.strip() removes these (the source reads ASCII text)
IsSpace(c) == c \in {" ", "\n", "\r", "\t"}

RECURSIVE LStrip(_)
LStrip(s) == IF s = <<>> THEN s
             ELSE IF IsSpace(Head(s)) THEN LStrip(Tail(s)) ELSE s

RECURSIVE RStrip(_)
RStrip(s) == IF s = <<>> THEN s
             ELSE IF IsSpace(s[Len(s)]) THEN RStrip(SubSeq(s, 1, Len(s) - 1)) ELSE s

Strip(s) == RStrip(LStrip(s))

StartsWith(s, p) == Len(s) >= Len(p) /\ SubSeq(s, 1, Len(p)) = p

EndsWith(s, p) == Len(s) >= Len(p) /\ SubSeq(s, Len(s) - Len(p) + 1, Len(s)) = p

Count(s, c) == Cardinality({i \in DOMAIN s : s[i] = c})

\* str.find(c): the first index of c, 0 when absent
Find(s, c) == IF \E i \in DOMAIN s : s[i] = c
              THEN CHOOSE i \in DOMAIN s : s[i] = c /\ \A j \in 1..(i - 1) : s[j] # c
              ELSE 0

\* sub in s
Contains(s, sub) == \E i \in 0..(Len(s) - Len(sub)) : SubSeq(s, i + 1, i + Len(sub)) = sub

\* str.replace(c, r) for a one-character c
RECURSIVE Replace(_, _, _)
Replace(s, c, r) == IF s = <<>> THEN <<>>
                    ELSE (IF Head(s) = c THEN r ELSE <<Head(s)>>) \o Replace(Tail(s), c, r)

\* all sequences over alphabet A of length at most n
RECURSIVE SeqsUpTo(_, _)
SeqsUpTo(A, n) == IF n = 0 THEN {<<>>}
                  ELSE LET S == SeqsUpTo(A, n - 1)
                       IN  S \cup {Append(s, c) : s \in {t \in S : Len(t) = n - 1}, c \in A}

---------------------------------------------------------------------------
(* FunctionExporter.parse_parameters_field                                 *)

\* the scan without depth counting: index of the first ")" from i on, else 0
ScanParensFirstClose(p, i, paren_count) ==
    IF \E j \in i..Len(p) : p[j] = ")"
    THEN CHOOSE j \in i..Len(p) : p[j] = ")" /\ \A k \in i..(j - 1) : p[k] # ")"
    ELSE 0

\* the depth-counting loop: index of the ")" that brings paren_count to 0, else 0
RECURSIVE ScanParens(_, _, _)
ScanParens(p, i, paren_count) ==
    IF i > Len(p) THEN 0
    ELSE IF p[i] = "(" THEN ScanParens(p, i + 1, paren_count + 1)
    ELSE IF p[i] = ")"
         THEN IF paren_count - 1 = 0 THEN i ELSE ScanParens(p, i + 1, paren_count - 1)
    ELSE ScanParens(p, i + 1, paren_count)

ParseParametersField(parameters_str) ==
    IF parameters_str = <<>> THEN <<>>
    ELSE LET start_idx == Find(parameters_str, "(")
         IN  IF start_idx = 0 THEN Strip(parameters_str)
             ELSE LET i == ScanParens(parameters_str, start_idx, 0)
                  IN  IF i # 0
                      THEN Strip(SubSeq(parameters_str, start_idx + 1, i - 1))
                      ELSE Strip(SubSeq(parameters_str, start_idx + 1, Len(parameters_str)))

---------------------------------------------------------------------------
(* FunctionExporter.validate_kql_function                                  *)

CreatePrefix == <<".", "c", "r", "e", "a", "t", "e", "-", "o", "r", "-",
                  "a", "l", "t", "e", "r", " ", "f", "u", "n", "c", "t", "i", "o", "n">>

\* the four reasons and the success message: <<text, values formatted into it>>
ReasonPrefix == "KQL doesn't start with .create-or-alter function"
ReasonName == "Function name not found in KQL"
ReasonBraces == "Unbalanced braces"
ReasonEnd == "KQL doesn't end with closing brace"
ReasonValid == "Valid"

\* the validator without its brace count
ValidateKqlFunctionNoCount(kql_content, func_name) ==
    IF ~StartsWith(Strip(kql_content), CreatePrefix)
    THEN [valid |-> FALSE, reason |-> <<ReasonPrefix, <<>>>>]
    ELSE IF ~Contains(kql_content, func_name)
    THEN [valid |-> FALSE, reason |-> <<ReasonName, func_name>>]
    ELSE IF ~EndsWith(Strip(kql_content), <<"}">>)
    THEN [valid |-> FALSE, reason |-> <<ReasonEnd, <<>>>>]
    ELSE [valid |-> TRUE, reason |-> <<ReasonValid, <<>>>>]

\* the validator with the trailing-brace check ahead of the brace count
ValidateKqlFunctionEndFirst(kql_content, func_name) ==
    IF ~StartsWith(Strip(kql_content), CreatePrefix)
    THEN [valid |-> FALSE, reason |-> <<ReasonPrefix, <<>>>>]
    ELSE IF ~Contains(kql_content, func_name)
    THEN [valid |-> FALSE, reason |-> <<ReasonName, func_name>>]
    ELSE IF ~EndsWith(Strip(kql_content), <<"}">>)
    THEN [valid |-> FALSE, reason |-> <<ReasonEnd, <<>>>>]
    ELSE LET open_braces == Count(kql_content, "{")
             close_braces == Count(kql_content, "}")
         IN  IF open_braces # close_braces
             THEN [valid |-> FALSE, reason |-> <<ReasonBraces, <<open_braces, close_braces>>>>]
             ELSE [valid |-> TRUE, reason |-> <<ReasonValid, <<>>>>]

ValidateKqlFunction(kql_content, func_name) ==
    IF ~StartsWith(Strip(kql_content), CreatePrefix)
    THEN [valid |-> FALSE, reason |-> <<ReasonPrefix, <<>>>>]
    ELSE IF ~Contains(kql_content, func_name)
    THEN [valid |-> FALSE, reason |-> <<ReasonName, func_name>>]
    ELSE LET open_braces == Count(kql_content, "{")
             close_braces == Count(kql_content, "}")
         IN  IF open_braces # close_braces
             THEN [valid |-> FALSE, reason |-> <<ReasonBraces, <<open_braces, close_braces>>>>]
             ELSE IF ~EndsWith(Strip(kql_content), <<"}">>)
             THEN [valid |-> FALSE, reason |-> <<ReasonEnd, <<>>>>]
             ELSE [valid |-> TRUE, reason |-> <<ReasonValid, <<>>>>]

---------------------------------------------------------------------------
(* FunctionExporter.extract_function_signature                             *)

\* re.sub(r'^(\s*//.*\n)*\s*', '', func_body, flags=re.MULTILINE): at every line
\* start, drop the comment lines that end in a newline and the whitespace
\* around them; CleanFrom is at a line start, CopyLine inside a line
RECURSIVE CleanFrom(_, _)
CleanFrom(b, atLineStart) ==
    IF b = <<>> THEN <<>>
    ELSE IF atLineStart
    THEN LET t == LStrip(b)
         IN  IF StartsWith(t, <<"/", "/">>) /\ Find(t, "\n") # 0
             THEN CleanFrom(SubSeq(t, Find(t, "\n") + 1, Len(t)), TRUE)
             ELSE IF t = <<>> THEN <<>>
             ELSE <<Head(t)>> \o CleanFrom(Tail(t), Head(t) = "\n")
    ELSE <<Head(b)>> \o CleanFrom(Tail(b), Head(b) = "\n")

CleanBody(func_body) == CleanFrom(func_body, TRUE)

\* the group of  name\s*\(([^)]*)\)  matched at index i of b, as <<group>>, else <<>>
NameMatchAt(b, i, func_name) ==
    IF ~StartsWith(SubSeq(b, i, Len(b)), func_name) THEN <<>>
    ELSE LET rest == LStrip(SubSeq(b, i + Len(func_name), Len(b)))
         IN  IF rest # <<>> /\ Head(rest) = "(" /\ Find(rest, ")") # 0
             THEN <<SubSeq(rest, 2, Find(rest, ")") - 1)>>
             ELSE <<>>

\* the group of  ^\s*[^(]*\(([^)]*)\)  : from the first "(" to the next ")"
ParenMatch(b) ==
    LET open == Find(b, "(")
        rest == SubSeq(b, open + 1, Len(b))
    IN  IF open # 0 /\ Find(rest, ")") # 0
        THEN <<SubSeq(rest, 1, Find(rest, ")") - 1)>>
        ELSE <<>>

ExtractFunctionSignature(func_body, func_name) ==
    LET cleaned_body == CleanBody(func_body)
        hits == {i \in DOMAIN cleaned_body : NameMatchAt(cleaned_body, i, func_name) # <<>>}
    IN  IF hits # {}
        THEN LET first == CHOOSE i \in hits : \A j \in hits : i <= j
             IN  Strip(NameMatchAt(cleaned_body, first, func_name)[1])
        ELSE IF ParenMatch(cleaned_body) # <<>>
        THEN Strip(ParenMatch(cleaned_body)[1])
        ELSE <<>>

---------------------------------------------------------------------------
(* FunctionExporter.build_function_kql                                     *)

\* re.sub(r'\s*,\s*', ',', s)
RECURSIVE SubCommas(_)
SubCommas(s) ==
    IF s = <<>> THEN <<>>
    ELSE LET t == LStrip(s)
         IN  IF t # <<>> /\ Head(t) = ","
             THEN <<",">> \o SubCommas(LStrip(Tail(t)))
             ELSE <<Head(s)>> \o SubCommas(Tail(s))

\* re.sub(r'\s+', ' ', s)
RECURSIVE CollapseSpaces(_)
CollapseSpaces(s) ==
    IF s = <<>> THEN <<>>
    ELSE IF IsSpace(Head(s)) THEN <<" ">> \o CollapseSpaces(LStrip(s))
    ELSE <<Head(s)>> \o CollapseSpaces(Tail(s))

CleanParameters(parameters) ==
    IF parameters # <<>> THEN CollapseSpaces(SubCommas(Strip(parameters))) ELSE parameters

\* doc_string.replace('"', '\\"').replace('\n', '\\n').replace('\r', '')
EscapeDocstring(doc_string) ==
    Replace(Replace(Replace(doc_string, "\"", <<"\\", "\"">>), "\n", <<"\\", "n">>), "\r", <<>>)

DocClausePrefix == <<"d", "o", "c", "s", "t", "r", "i", "n", "g", " ", "=", " ", "\"">>
FolderClausePrefix == <<"f", "o", "l", "d", "e", "r", " ", "=", " ", "\"">>
WithPrefix == <<" ", "w", "i", "t", "h", " ", "(">>

\* the with_clauses list
WithClauses(doc_string, folder) ==
    (IF doc_string # <<>>
     THEN <<DocClausePrefix \o EscapeDocstring(doc_string) \o <<"\"">>>> ELSE <<>>)
    \o (IF folder # <<>> THEN <<FolderClausePrefix \o folder \o <<"\"">>>> ELSE <<>>)

\* ','.join(with_clauses)
RECURSIVE JoinComma(_)
JoinComma(clauses) ==
    IF clauses = <<>> THEN <<>>
    ELSE IF Len(clauses) = 1 THEN clauses[1]
    ELSE clauses[1] \o <<",">> \o JoinComma(Tail(clauses))

\* the body re-wrapped without removing its own braces
BodyContentKeepBraces(func_body) == Strip(func_body)

\* the body placed between the rebuilt braces
BodyContent(func_body) ==
    LET function_body_content == Strip(func_body)
    IN  IF function_body_content # <<>>
        THEN IF StartsWith(function_body_content, <<"{">>)
                /\ EndsWith(function_body_content, <<"}">>)
             THEN Strip(SubSeq(function_body_content, 2, Len(function_body_content) - 1))
             ELSE function_body_content
        ELSE <<>>

\* func_details.get(key) / .get(key, ""): the value, or the falsy empty text
Get(func_details, key) ==
    IF key \in DOMAIN func_details THEN func_details[key] ELSE <<>>

\* the parameters: the Parameters field when present, else read from the body
GetParameters(func_details) ==
    IF Get(func_details, "Parameters") # <<>>
    THEN ParseParametersField(Get(func_details, "Parameters"))
    ELSE ExtractFunctionSignature(Get(func_details, "Body"), Get(func_details, "Name"))

\* create_cmd up to and including the opening "{\n"
StatementHead(func_details) ==
    LET with_clauses == WithClauses(Get(func_details, "DocString"),
                                    Get(func_details, "Folder"))
        parameters == CleanParameters(GetParameters(func_details))
    IN  CreatePrefix
        \o (IF with_clauses # <<>>
            THEN WithPrefix \o JoinComma(with_clauses) \o <<")">> ELSE <<>>)
        \o <<" ">> \o Get(func_details, "Name") \o <<"(">> \o parameters
        \o <<")", " ", "{", "\n">>

MissingData == "Missing required function data"

\* build_function_kql without the closing "\n}"
BuildFunctionKqlUnclosed(func_details) ==
    IF Get(func_details, "Name") = <<>> \/ Get(func_details, "Body") = <<>>
    THEN [kql |-> <<>>, error |-> MissingData]
    ELSE [kql |-> StatementHead(func_details) \o BodyContent(Get(func_details, "Body")),
          error |-> ""]

\* returns (create_cmd, None) or (None, "Missing required function data")
BuildFunctionKql(func_details) ==
    IF Get(func_details, "Name") = <<>> \/ Get(func_details, "Body") = <<>>
    THEN [kql |-> <<>>, error |-> MissingData]
    ELSE [kql |-> StatementHead(func_details) \o BodyContent(Get(func_details, "Body"))
                    \o <<"\n", "}">>,
          error |-> ""]

---------------------------------------------------------------------------
(* TableExporter._format_schema_definition                                 *)

\* \w of the regular expression
IsWord(c) == c \in {"a", "b", "c", "d", "e", "f", "g", "h", "i", "j", "k", "l", "m",
                    "n", "o", "p", "q", "r", "s", "t", "u", "v", "w", "x", "y", "z",
                    "A", "B", "C", "D", "E", "F", "G", "H", "I", "J", "K", "L", "M",
                    "N", "O", "P", "Q", "R", "S", "T", "U", "V", "W", "X", "Y", "Z",
                    "0", "1", "2", "3", "4", "5", "6", "7", "8", "9", "_"}

\* length of the run of word characters at the head of s
RECURSIVE WordRun(_)
WordRun(s) == IF s = <<>> \/ ~IsWord(Head(s)) THEN 0 ELSE 1 + WordRun(Tail(s))

\* a space put after every colon, spaced or not
SubColonsEvery(s) == Replace(s, ":", <<":", " ">>)

\* re.sub(r'(\w+):(\w+)', r'\1: \2', s): leftmost matches, left to right, the
\* scan resuming after each match
RECURSIVE SubColons(_)
SubColons(s) ==
    IF s = <<>> THEN <<>>
    ELSE LET k == WordRun(s)
             after == SubSeq(s, k + 2, Len(s))
             m == WordRun(after)
         IN  IF k > 0 /\ k < Len(s) /\ s[k + 1] = ":" /\ m > 0
             THEN SubSeq(s, 1, k) \o <<":", " ">> \o SubSeq(after, 1, m)
                  \o SubColons(SubSeq(after, m + 1, Len(after)))
             ELSE <<Head(s)>> \o SubColons(Tail(s))

FormatSchemaDefinition(schema_definition) ==
    LET stripped == Strip(schema_definition)
        wrapped == IF ~StartsWith(stripped, <<"(">>)
                   THEN <<"(">> \o stripped \o <<")">> ELSE stripped
    IN  SubColons(wrapped)

---------------------------------------------------------------------------
(* Specifications of the single functions: Init draws the input, the one   *)
(* action applies the function.  No exporter runs in them.                 *)

NoRun ==
    /\ driver = "none" /\ pc = "idle" /\ listing = <<>> /\ idx = 0
    /\ exported_count = 0 /\ failed_count = 0 /\ exported_functions = <<>>
    /\ create_commands = <<>> /\ export_failed_count = 0 /\ widx = 0
    /\ files = {} /\ readme = <<>> /\ exit_code = -1 /\ seen = <<>> /\ log = <<>>

ParamAlphabet == {"(", ")", " ", "a"}
ParamInputs == SeqsUpTo(ParamAlphabet, MaxParamLen)

InitParse == NoRun /\ arg \in ParamInputs /\ ret = <<>>
CallParse ==
    /\ driver = "none" /\ ret = <<>>
    /\ ret' = <<ParseParametersField(arg)>>
    /\ UNCHANGED <<arg, drvVars>>
NextParse == CallParse
SpecParse == InitParse /\ [][NextParse]_vars

\* build_function_kql: metadata records whose body varies, records whose
\* docstring varies, and records that take the other branches
BodyAlphabet == {"{", "}", " ", "T"}
DocAlphabet == {"\"", "\n", "\r", "\\", "x"}
FnName == <<"f">>
F1 == <<"F", "1">>
F2 == <<"F", "2">>
F3 == <<"g">>
Details(name, parameters, body, folder, doc_string) ==
    [Name |-> name, Parameters |-> parameters, Body |-> body, Folder |-> folder,
     DocString |-> doc_string]
BuildInputs ==
    {Details(FnName, <<>>, b, <<>>, <<>>) : b \in SeqsUpTo(BodyAlphabet, MaxBodyLen)}
    \cup {Details(FnName, <<>>, <<"T">>, <<>>, d) : d \in SeqsUpTo(DocAlphabet, MaxDocLen)}
    \cup {Details(F3, <<>>, b, <<>>, <<>>) : b \in SeqsUpTo(BodyAlphabet, MaxBodyLen)}
    \cup {Details(FnName, <<"f", "(", "a", " ", ",", " ", "b", ")">>, <<"{", "T", "}">>,
                  <<"d">>, <<"h", "\"", "i">>),
          Details(FnName, <<"a", ":", "i", "n", "t">>, <<"T">>, <<"d">>, <<>>),
          Details(FnName, <<>>, <<"/", "/", "c", "\n", "f", " ", "(", "a", ")", "{", "T", "}">>,
                  <<>>, <<>>),
          Details(FnName, <<>>, <<"(", "a", ")", "T">>, <<>>, <<>>),
          Details(<<>>, <<>>, <<"T">>, <<>>, <<>>)}

InitBuild == NoRun /\ arg \in BuildInputs /\ ret = <<>>
CallBuild ==
    /\ driver = "none" /\ ret = <<>>
    /\ ret' = <<BuildFunctionKql(arg)>>
    /\ UNCHANGED <<arg, drvVars>>
\* the driver validates the statement it got from build_function_kql
CallValidateBuilt ==
    /\ driver = "none" /\ Len(ret) = 1 /\ ret[1].error = ""
    /\ ret' = Append(ret, ValidateKqlFunction(ret[1].kql, Get(arg, "Name")))
    /\ UNCHANGED <<arg, drvVars>>
NextBuild == CallBuild \/ CallValidateBuilt
SpecBuild == InitBuild /\ [][NextBuild]_vars

\* validate_kql_function: a head (the command prefix, the prefix cut short,
\* nothing) followed by a short text, checked for a name
TailAlphabet == {"{", "}", " ", "g"}
StatementHeads == {<<>>, CreatePrefix, <<" ">> \o CreatePrefix, Tail(CreatePrefix)}
ValidateInputs ==
    {[kql |-> h \o t, name |-> n] :
        h \in StatementHeads, t \in SeqsUpTo(TailAlphabet, MaxTailLen), n \in {<<"g">>, <<"f">>}}

InitValidate == NoRun /\ arg \in ValidateInputs /\ ret = <<>>
CallValidate ==
    /\ driver = "none" /\ ret = <<>>
    /\ ret' = <<ValidateKqlFunction(arg.kql, arg.name)>>
    /\ UNCHANGED <<arg, drvVars>>
NextValidate == CallValidate
SpecValidate == InitValidate /\ [][NextValidate]_vars

\* _format_schema_definition, applied to a schema string and then to its own
\* result
SchemaAlphabet == {"(", ")", "a", ":", " "}
SchemaInputs == SeqsUpTo(SchemaAlphabet, MaxSchemaLen)

InitFormat == NoRun /\ arg \in SchemaInputs /\ ret = <<>>
CallFormat ==
    /\ driver = "none" /\ Len(ret) < 2
    /\ ret' = Append(ret, FormatSchemaDefinition(IF ret = <<>> THEN arg ELSE ret[Len(ret)]))
    /\ UNCHANGED <<arg, drvVars>>
NextFormat == CallFormat
SpecFormat == InitFormat /\ [][NextFormat]_vars

---------------------------------------------------------------------------
(* The remote database seen by the exporters.                              *)

ObjNames == {F1, F2, F3}

\* the listings the remote can return: object names are unique in a database
Listings == {l \in SeqsUpTo(ObjNames, MaxList) : \A i, j \in DOMAIN l : l[i] = l[j] => i = j}

\* the columns of a ".show function" row
FunctionColumns == <<"Name", "Parameters", "Body", "Folder", "DocString">>

\* rows the remote can answer ".show function [name]" with
RowFull(n) == <<n, n \o <<"(", "a", ":", "i", "n", "t", ")">>, <<"{", " ", "T", " ", "}">>,
                <<"d">>, <<"h", "\"", "i">>>>
RowBare(n) == <<n, <<>>, <<"T">>, <<>>, <<>>>>
RowUnbalanced(n) == <<n, <<>>, <<"T", "}">>, <<>>, <<>>>>
RowNoBody(n) == <<n, <<"(", ")">>>>
RowEmptyBody(n) == <<n, <<>>, <<>>, <<>>, <<>>>>
RowNoName(n) == <<<<>>, <<>>, <<"T">>, <<>>, <<>>>>
FunctionRows(n) == {RowFull(n), RowBare(n), RowUnbalanced(n), RowNoBody(n),
                    RowEmptyBody(n), RowNoName(n)}

\* what a ".show function" call can do: raise KustoApiError, return no row, or
\* return a row whose named access (to_dict) and positional access work or raise
FunctionResponses(n) ==
    {[kind |-> "api_error", row |-> <<>>, to_dict_ok |-> FALSE, indexed_ok |-> FALSE],
     [kind |-> "no_rows", row |-> <<>>, to_dict_ok |-> FALSE, indexed_ok |-> FALSE],
     [kind |-> "row", row |-> RowFull(n), to_dict_ok |-> FALSE, indexed_ok |-> FALSE]}
    \cup {[kind |-> "row", row |-> r, to_dict_ok |-> TRUE, indexed_ok |-> TRUE] :
            r \in FunctionRows(n)}
    \cup {[kind |-> "row", row |-> r, to_dict_ok |-> FALSE, indexed_ok |-> TRUE] :
            r \in {RowFull(n), RowNoBody(n)}}

\* what a ".show table T cslschema" call can do: raise KustoApiError, return no
\* row (the indexing raises), or return a row with its Schema string
SchemaSamples == {<<>>, <<"a", ":", "b">>, <<"(", "a", ":", "b", ")">>,
                  <<"(", "a", ":", " ", "b", ")">>}
TableResponses ==
    {[kind |-> "api_error", schema |-> <<>>], [kind |-> "no_rows", schema |-> <<>>]}
    \cup {[kind |-> "row", schema |-> x] : x \in SchemaSamples}

---------------------------------------------------------------------------
(* FunctionExporter.get_function_details                                   *)

\* the dict of a row: column i to value i, for the values the row has
RowDict(columns, row) ==
    [c \in {columns[i] : i \in 1..(IF Len(row) < Len(columns) THEN Len(row) ELSE Len(columns))}
        |-> row[CHOOSE i \in DOMAIN columns : columns[i] = c]]

\* get_function_details with "return None" where the source re-raises
GetFunctionDetailsSwallow(resp) ==
    IF resp.kind \in {"api_error", "no_rows"}
    THEN [raised |-> FALSE, value |-> <<>>, tried |-> <<>>]
    ELSE IF resp.to_dict_ok
    THEN [raised |-> FALSE, value |-> <<RowDict(FunctionColumns, resp.row)>>,
          tried |-> <<"to_dict">>]
    ELSE IF resp.indexed_ok
    THEN [raised |-> FALSE, value |-> <<RowDict(FunctionColumns, resp.row)>>,
          tried |-> <<"to_dict", "indexed">>]
    ELSE [raised |-> FALSE, value |-> <<>>, tried |-> <<"to_dict", "indexed">>]

\* raised: KustoApiError propagates; value: <<>> for None, else <<func_dict>>;
\* tried: the access shapes attempted, in order
GetFunctionDetails(resp) ==
    IF resp.kind = "api_error"
    THEN [raised |-> TRUE, value |-> <<>>, tried |-> <<>>]
    ELSE IF resp.kind = "no_rows"
    THEN [raised |-> FALSE, value |-> <<>>, tried |-> <<>>]
    ELSE IF resp.to_dict_ok
    THEN [raised |-> FALSE, value |-> <<RowDict(FunctionColumns, resp.row)>>,
          tried |-> <<"to_dict">>]
    ELSE IF resp.indexed_ok
    THEN [raised |-> FALSE, value |-> <<RowDict(FunctionColumns, resp.row)>>,
          tried |-> <<"to_dict", "indexed">>]
    ELSE [raised |-> FALSE, value |-> <<>>, tried |-> <<"to_dict", "indexed">>]

---------------------------------------------------------------------------
(* KustoExporter.write_file, generate_file_header; ExportSummary           *)

KqlSuffix == <<".", "k", "q", "l">>

\* the directory after write_file(filename, content) succeeded
WriteFile(dir, filename, content) ==
    {f \in dir : f.name # filename} \cup {[name |-> filename, content |-> content]}

\* the timestamp is one opaque character
FileHeader(object_name) ==
    <<"/", "/", " ", "C", "R", "E", "A", "T", "E", " ", "T", "A", "B", "L", "E", " ",
      "c", "o", "m", "m", "a", "n", "d", " ", "f", "o", "r", " ">> \o object_name
    \o <<"\n", "/", "/", " ", "G", "e", "n", "e", "r", "a", "t", "e", "d", " ", "o", "n",
         " ", "<now>", "\n", "\n">>

\* the exit code taken from the failures instead of the exports
SummaryExitCodeByFailures(exported) == IF exported >= 0 THEN 0 ELSE 1

\* ExportSummary.print_summary: the exit code
SummaryExitCode(exported) == IF exported > 0 THEN 0 ELSE 1

---------------------------------------------------------------------------
(* ReadmeGenerator.generate_readme: the summary counts and the name list   *)

\* code points order the characters of object names
Ascii == <<"0", "1", "2", "3", "4", "5", "6", "7", "8", "9",
           "A", "B", "C", "D", "E", "F", "G", "H", "I", "J", "K", "L", "M",
           "N", "O", "P", "Q", "R", "S", "T", "U", "V", "W", "X", "Y", "Z", "_",
           "a", "b", "c", "d", "e", "f", "g", "h", "i", "j", "k", "l", "m",
           "n", "o", "p", "q", "r", "s", "t", "u", "v", "w", "x", "y", "z">>
CharCode(c) == CHOOSE i \in DOMAIN Ascii : Ascii[i] = c

\* a < b for Python strings
RECURSIVE StrLess(_, _)
StrLess(a, b) ==
    IF b = <<>> THEN FALSE
    ELSE IF a = <<>> THEN TRUE
    ELSE IF Head(a) = Head(b) THEN StrLess(Tail(a), Tail(b))
    ELSE CharCode(Head(a)) < CharCode(Head(b))

\* sorted(object_names)
RECURSIVE Sorted(_)
Sorted(names) ==
    IF names = <<>> THEN <<>>
    ELSE LET rest == Sorted(Tail(names))
             before == SelectSeq(rest, LAMBDA n : ~StrLess(Head(names), n))
             after == SelectSeq(rest, LAMBDA n : StrLess(Head(names), n))
         IN  before \o <<Head(names)>> \o after

\* what the README states: the two summary counts and the listed names
ReadmeContent(exported, failed, object_names) ==
    [exported |-> exported, failed |-> failed, names |-> Sorted(object_names)]

---------------------------------------------------------------------------
(* One iteration of the loop of FunctionExporter._export_function_files    *)

\* status: how the iteration counts the object; built: <<statement>> once one
\* was assembled; write: <<file>> once write_file was called
IterResult(status, why, built, write) ==
    [status |-> status, why |-> why, built |-> built, write |-> write]

\* the iteration with the validation result ignored
FunctionIterationUnvalidated(resp, write_ok) ==
    LET det == GetFunctionDetails(resp)
    IN  IF det.raised
        THEN IterResult("failed", "api_error", <<>>, <<>>)
        ELSE IF det.value = <<>> \/ DOMAIN det.value[1] = {}
        THEN IterResult("failed", "no_details", <<>>, <<>>)
        ELSE LET func_details == det.value[1]
                 func_name == Get(func_details, "Name")
                 func_body == Get(func_details, "Body")
                 b == BuildFunctionKql(func_details)
                 w == [name |-> func_name \o KqlSuffix, content |-> b.kql]
             IN  IF func_name = <<>> \/ func_body = <<>>
                 THEN IterResult("failed", "missing_data", <<>>, <<>>)
                 ELSE IF b.error # ""
                 THEN IterResult("failed", "build_error", <<>>, <<>>)
                 ELSE IF write_ok
                 THEN IterResult("exported", "written", <<b.kql>>, <<w>>)
                 ELSE IterResult("failed", "write_error", <<b.kql>>, <<w>>)

\* the iteration with the result of write_file ignored
FunctionIterationWriteIgnored(resp, write_ok) ==
    LET det == GetFunctionDetails(resp)
    IN  IF det.raised
        THEN IterResult("failed", "api_error", <<>>, <<>>)
        ELSE IF det.value = <<>> \/ DOMAIN det.value[1] = {}
        THEN IterResult("failed", "no_details", <<>>, <<>>)
        ELSE LET func_details == det.value[1]
                 func_name == Get(func_details, "Name")
                 func_body == Get(func_details, "Body")
                 b == BuildFunctionKql(func_details)
                 v == ValidateKqlFunction(b.kql, func_name)
                 w == [name |-> func_name \o KqlSuffix, content |-> b.kql]
             IN  IF func_name = <<>> \/ func_body = <<>>
                 THEN IterResult("failed", "missing_data", <<>>, <<>>)
                 ELSE IF b.error # ""
                 THEN IterResult("failed", "build_error", <<>>, <<>>)
                 ELSE IF ~v.valid
                 THEN IterResult("failed", "validation", <<b.kql>>, <<>>)
                 ELSE IterResult("exported", "written", <<b.kql>>, <<w>>)

\* the iteration with a validation failure that continues without counting
FunctionIterationUncounted(resp, write_ok) ==
    LET det == GetFunctionDetails(resp)
    IN  IF det.raised
        THEN IterResult("failed", "api_error", <<>>, <<>>)
        ELSE IF det.value = <<>> \/ DOMAIN det.value[1] = {}
        THEN IterResult("failed", "no_details", <<>>, <<>>)
        ELSE LET func_details == det.value[1]
                 func_name == Get(func_details, "Name")
                 func_body == Get(func_details, "Body")
                 b == BuildFunctionKql(func_details)
                 v == ValidateKqlFunction(b.kql, func_name)
                 w == [name |-> func_name \o KqlSuffix, content |-> b.kql]
             IN  IF func_name = <<>> \/ func_body = <<>>
                 THEN IterResult("failed", "missing_data", <<>>, <<>>)
                 ELSE IF b.error # ""
                 THEN IterResult("failed", "build_error", <<>>, <<>>)
                 ELSE IF ~v.valid
                 THEN IterResult("skipped", "validation", <<b.kql>>, <<>>)
                 ELSE IF write_ok
                 THEN IterResult("exported", "written", <<b.kql>>, <<w>>)
                 ELSE IterResult("failed", "write_error", <<b.kql>>, <<w>>)

\* what the iteration does for one listed function, given the remote's answer
\* and whether the file write succeeds
FunctionIteration(resp, write_ok) ==
    LET det == GetFunctionDetails(resp)
    IN  IF det.raised
        THEN IterResult("failed", "api_error", <<>>, <<>>)
        ELSE IF det.value = <<>> \/ DOMAIN det.value[1] = {}
        THEN IterResult("failed", "no_details", <<>>, <<>>)
        ELSE LET func_details == det.value[1]
                 func_name == Get(func_details, "Name")
                 func_body == Get(func_details, "Body")
                 b == BuildFunctionKql(func_details)
                 v == ValidateKqlFunction(b.kql, func_name)
                 w == [name |-> func_name \o KqlSuffix, content |-> b.kql]
             IN  IF func_name = <<>> \/ func_body = <<>>
                 THEN IterResult("failed", "missing_data", <<>>, <<>>)
                 ELSE IF b.error # ""
                 THEN IterResult("failed", "build_error", <<>>, <<>>)
                 ELSE IF ~v.valid
                 THEN IterResult("failed", "validation", <<b.kql>>, <<>>)
                 ELSE IF write_ok
                 THEN IterResult("exported", "written", <<b.kql>>, <<w>>)
                 ELSE IterResult("failed", "write_error", <<b.kql>>, <<w>>)

---------------------------------------------------------------------------
(* One iteration of the loop of TableExporter.get_table_create_commands    *)

CreateTablePrefix == <<".", "c", "r", "e", "a", "t", "e", " ", "t", "a", "b", "l", "e", " ">>

\* a dict that puts a new key first: iteration order is not insertion order
DictSetPrepend(d, k, v) ==
    IF \E i \in DOMAIN d : d[i][1] = k
    THEN [i \in DOMAIN d |-> IF d[i][1] = k THEN <<k, v>> ELSE d[i]]
    ELSE <<<<k, v>>>> \o d

\* create_commands[table] = create_command
DictSet(d, k, v) ==
    IF \E i \in DOMAIN d : d[i][1] = k
    THEN [i \in DOMAIN d |-> IF d[i][1] = k THEN <<k, v>> ELSE d[i]]
    ELSE Append(d, <<k, v>>)

\* list(create_commands.keys())
Keys(d) == [i \in DOMAIN d |-> d[i][1]]

\* <<create_command>> when the table is processed, <<>> when it fails
TableIteration(table, resp) ==
    IF resp.kind # "row" THEN <<>>
    ELSE IF resp.schema = <<>> THEN <<>>
    ELSE <<CreateTablePrefix \o table \o <<" ">> \o FormatSchemaDefinition(resp.schema)>>

---------------------------------------------------------------------------
(* The export run: export_functions and export_tables.                     *)

ListResponses ==
    {[kind |-> "api_error", names |-> <<>>]}
    \cup {[kind |-> "names", names |-> l] : l \in Listings}

Init ==
    /\ driver \in {"function", "table"}
    /\ pc = "start"
    /\ listing = <<>> /\ idx = 0
    /\ exported_count = 0 /\ failed_count = 0 /\ exported_functions = <<>>
    /\ create_commands = <<>> /\ export_failed_count = 0 /\ widx = 0
    /\ files = {} /\ readme = <<>> /\ exit_code = -1
    /\ seen = <<>> /\ log = <<>>
    /\ arg = <<>> /\ ret = <<>>

\* a fatal condition reported as success
Return0 == pc' = "done" /\ exit_code' = 0

\* return 1 from the driver
Return1 == pc' = "done" /\ exit_code' = 1

\* KustoExporter.authenticate and the driver's test of it
Authenticate ==
    /\ driver \in {"function", "table"} /\ pc = "start"
    /\ \E ok \in BOOLEAN :
        /\ log' = Append(log, <<"authenticate", ok>>)
        /\ IF ok THEN pc' = "mkdir" /\ UNCHANGED exit_code ELSE Return1
    /\ UNCHANGED <<driver, listing, idx, exported_count, failed_count, exported_functions,
                   create_commands, export_failed_count, widx, files, readme, seen, fnVars>>

\* KustoExporter.create_output_directory and the driver's test of it
CreateOutputDirectory ==
    /\ pc = "mkdir"
    /\ \E ok \in BOOLEAN :
        /\ log' = Append(log, <<"makedirs", ok>>)
        /\ IF ok THEN pc' = "list" /\ UNCHANGED exit_code ELSE Return1
    /\ UNCHANGED <<driver, listing, idx, exported_count, failed_count, exported_functions,
                   create_commands, export_failed_count, widx, files, readme, seen, fnVars>>

\* FunctionExporter.get_functions and the driver's handling of its result
GetFunctions ==
    /\ driver = "function" /\ pc = "list"
    /\ \E resp \in ListResponses :
        /\ log' = Append(log, <<"list", resp.kind>>)
        /\ IF resp.kind = "names" /\ resp.names # <<>>
           THEN listing' = resp.names /\ pc' = "loop" /\ UNCHANGED exit_code
           ELSE UNCHANGED listing /\ Return1
    /\ UNCHANGED <<driver, idx, exported_count, failed_count, exported_functions,
                   create_commands, export_failed_count, widx, files, readme, seen, fnVars>>

\* a break where the source has continue: a failed object ends the loop
LoopNextBreak(done, total, status) ==
    IF done = total \/ status = "failed" THEN "readme" ELSE "loop"

\* the for loop after an iteration: on to the next listed object whatever the
\* iteration's status (every except clause continues), out after the last
LoopNext(done, total, status) == IF done = total THEN "readme" ELSE "loop"

\* one iteration of the for loop of _export_function_files
ProcessFunction ==
    /\ driver = "function" /\ pc = "loop" /\ idx < Len(listing)
    /\ \E resp \in FunctionResponses(listing[idx + 1]), write_ok \in BOOLEAN :
        LET func == listing[idx + 1]
            r == FunctionIteration(resp, write_ok)
        IN  /\ idx' = idx + 1
            /\ exported_count' = IF r.status = "exported"
                                 THEN exported_count + 1 ELSE exported_count
            /\ failed_count' = IF r.status = "failed" THEN failed_count + 1 ELSE failed_count
            /\ exported_functions' = IF r.status = "exported"
                                     THEN Append(exported_functions, Get(GetFunctionDetails(resp).value[1], "Name"))
                                     ELSE exported_functions
            /\ files' = IF r.write # <<>> /\ write_ok
                        THEN WriteFile(files, r.write[1].name, r.write[1].content)
                        ELSE files
            /\ seen' = Append(seen, [name |-> func, resp |-> resp, status |-> r.status,
                                     why |-> r.why, built |-> r.built,
                                     details |-> GetFunctionDetails(resp)])
            /\ log' = log \o <<<<"fetch", func>>>>
                      \o (IF r.write # <<>>
                          THEN <<<<"write", r.write[1].name, write_ok>>>> ELSE <<>>)
            /\ pc' = LoopNext(idx + 1, Len(listing), r.status)
    /\ UNCHANGED <<driver, listing, create_commands, export_failed_count, widx, readme,
                   exit_code, fnVars>>

\* the ".show tables" call of get_table_create_commands; its error is caught
\* by export_tables
GetTables ==
    /\ driver = "table" /\ pc = "list"
    /\ \E resp \in ListResponses :
        /\ log' = Append(log, <<"list", resp.kind>>)
        /\ IF resp.kind = "names"
           THEN listing' = resp.names /\ pc' = "loop" /\ UNCHANGED exit_code
           ELSE UNCHANGED listing /\ Return1
    /\ UNCHANGED <<driver, idx, exported_count, failed_count, exported_functions,
                   create_commands, export_failed_count, widx, files, readme, seen, fnVars>>

\* one iteration of the for loop of get_table_create_commands; failed_count
\* is len(failed_tables)
ProcessTable ==
    /\ driver = "table" /\ pc = "loop" /\ idx < Len(listing)
    /\ \E resp \in TableResponses :
        LET table == listing[idx + 1]
            r == TableIteration(table, resp)
        IN  /\ idx' = idx + 1
            /\ create_commands' = IF r # <<>> THEN DictSet(create_commands, table, r[1])
                                  ELSE create_commands
            /\ failed_count' = IF r = <<>> THEN failed_count + 1 ELSE failed_count
            /\ seen' = Append(seen, [name |-> table, resp |-> resp,
                                     status |-> IF r # <<>> THEN "processed" ELSE "failed",
                                     why |-> resp.kind, built |-> r,
                                     details |-> [raised |-> resp.kind # "row",
                                                  value |-> IF resp.kind = "row"
                                                            THEN <<resp.schema>> ELSE <<>>,
                                                  tried |-> <<>>]])
            /\ log' = Append(log, <<"fetch", table>>)
    /\ UNCHANGED <<driver, pc, listing, exported_count, exported_functions,
                   export_failed_count, widx, files, readme, exit_code, fnVars>>

\* get_table_create_commands returns; export_tables tests create_commands
ReturnCreateCommands ==
    /\ driver = "table" /\ pc = "loop" /\ idx = Len(listing)
    /\ IF create_commands = <<>> THEN Return1 ELSE pc' = "write" /\ UNCHANGED exit_code
    /\ UNCHANGED <<driver, listing, idx, exported_count, failed_count, exported_functions,
                   create_commands, export_failed_count, widx, files, readme, seen, log,
                   fnVars>>

\* one iteration of the for loop of _export_table_files
WriteTableFile ==
    /\ driver = "table" /\ pc = "write" /\ widx < Len(create_commands)
    /\ \E write_ok \in BOOLEAN :
        LET table == create_commands[widx + 1][1]
            content == FileHeader(table) \o create_commands[widx + 1][2]
        IN  /\ widx' = widx + 1
            /\ files' = IF write_ok THEN WriteFile(files, table \o KqlSuffix, content)
                        ELSE files
            /\ exported_count' = IF write_ok THEN exported_count + 1 ELSE exported_count
            /\ export_failed_count' = IF write_ok THEN export_failed_count
                                      ELSE export_failed_count + 1
            /\ log' = Append(log, <<"write", table \o KqlSuffix, write_ok>>)
            /\ pc' = IF widx + 1 = Len(create_commands) THEN "readme" ELSE "write"
    /\ UNCHANGED <<driver, listing, idx, failed_count, exported_functions, create_commands,
                   readme, exit_code, seen, fnVars>>

\* the generate_readme call of either driver; its result is not tested
GenerateReadme ==
    /\ pc = "readme"
    /\ \E ok \in BOOLEAN :
        /\ readme' = IF ~ok THEN readme
                     ELSE IF driver = "function"
                     THEN <<ReadmeContent(exported_count, failed_count, exported_functions)>>
                     ELSE <<ReadmeContent(exported_count, failed_count + export_failed_count,
                                          Keys(create_commands))>>
        /\ log' = Append(log, <<"readme", ok>>)
    /\ pc' = "summary"
    /\ UNCHANGED <<driver, listing, idx, exported_count, failed_count, exported_functions,
                   create_commands, export_failed_count, widx, files, exit_code, seen,
                   fnVars>>

\* return self.summary.print_summary(...)
PrintSummary ==
    /\ pc = "summary"
    /\ exit_code' = SummaryExitCode(exported_count)
    /\ pc' = "done"
    /\ UNCHANGED <<driver, listing, idx, exported_count, failed_count, exported_functions,
                   create_commands, export_failed_count, widx, files, readme, seen, log,
                   fnVars>>

Next ==
    \/ Authenticate
    \/ CreateOutputDirectory
    \/ GetFunctions
    \/ ProcessFunction
    \/ GetTables
    \/ ProcessTable
    \/ ReturnCreateCommands
    \/ WriteTableFile
    \/ GenerateReadme
    \/ PrintSummary

Spec == Init /\ [][Next]_vars

---------------------------------------------------------------------------
(* Properties of the export run (specification Spec).                      *)

\* number of detail-fetch calls issued for object n
Fetches(n) == Cardinality({i \in DOMAIN log : log[i][1] = "fetch" /\ log[i][2] = n})

\* the run wrote file name
Written(name) == \E f \in files : f.name = name

\* the dict the driver got for a remote answer, <<>> when it got none
DictOf(resp) ==
    IF resp.kind = "row" /\ (resp.to_dict_ok \/ resp.indexed_ok)
    THEN RowDict(FunctionColumns, resp.row) ELSE <<>>

\* the remote answer carries no name or no body
LacksData(resp) == Get(DictOf(resp), "Name") = <<>> \/ Get(DictOf(resp), "Body") = <<>>

\* the remote answer has name and body and its assembled statement validates
ValidAnswer(resp) ==
    LET d == DictOf(resp)
        b == BuildFunctionKql(d)
    IN  /\ Get(d, "Name") # <<>> /\ Get(d, "Body") # <<>>
        /\ b.error = ""
        /\ ValidateKqlFunction(b.kql, Get(d, "Name")).valid

\* write_file succeeded for file name
WriteSucceeded(name) ==
    \E i \in DOMAIN log : log[i][1] = "write" /\ log[i][2] = name /\ log[i][3]

\* number of write_file calls issued for file name
Writes(name) == Cardinality({i \in DOMAIN log : log[i][1] = "write" /\ log[i][2] = name})

\* C1: a failure on a listed object never aborts the run: each object whose
\* turn has come was fetched exactly once, each later one not yet, the objects
\* are taken in listing order, and the run leaves the loop only after the last
\* listed object; the table driver's write loop likewise tries each processed
\* table once and ends only after the last
C1_FailureNeverAborts ==
    /\ idx <= Len(listing) /\ Len(seen) = idx
    /\ \A i \in DOMAIN listing :
        /\ Fetches(listing[i]) = IF i <= idx THEN 1 ELSE 0
        /\ i <= idx => seen[i].name = listing[i]
    /\ (listing # <<>> /\ pc # "loop") => idx = Len(listing)
    /\ widx <= Len(create_commands)
    /\ \A i \in DOMAIN create_commands :
        Writes(create_commands[i][1] \o KqlSuffix) = IF i <= widx THEN 1 ELSE 0
    /\ pc \in {"readme", "summary", "done"} => widx = Len(create_commands)

\* C1 witness: the first of two listed objects failed on a remote API error
\* and the second was still processed and exported
C1_Witness ==
    /\ pc = "done" /\ Len(listing) = 2
    /\ seen[1].status = "failed" /\ seen[1].why = "api_error"
    /\ seen[2].status # "failed" /\ exit_code = 0

\* C2: in a function export run a listed function without body or name is not
\* written and counts as failed, a function with a valid answer whose write
\* succeeds is written as <Name>.kql and counts as exported, each object
\* counts once; for [F1, F2] with F1 valid and F2 lacking its body the run
\* ends with exactly F1.kql, 1 exported, 1 failed and exit code 0
C2_FunctionRunCounts ==
    driver = "function" =>
        /\ \A i \in DOMAIN seen :
            /\ LacksData(seen[i].resp) => ~Written(seen[i].name \o KqlSuffix)
            /\ (ValidAnswer(seen[i].resp) /\ WriteSucceeded(seen[i].name \o KqlSuffix))
                    => Written(seen[i].name \o KqlSuffix)
        /\ exported_count = Cardinality({i \in DOMAIN seen : Written(seen[i].name \o KqlSuffix)})
        /\ failed_count = Cardinality({i \in DOMAIN seen : ~Written(seen[i].name \o KqlSuffix)})
        /\ failed_count >= Cardinality({i \in DOMAIN seen : LacksData(seen[i].resp)})
        /\ (/\ pc = "done" /\ listing = <<F1, F2>>
            /\ ValidAnswer(seen[1].resp) /\ WriteSucceeded(F1 \o KqlSuffix)
            /\ seen[2].resp.kind = "row" /\ DictOf(seen[2].resp) # <<>>
            /\ Get(DictOf(seen[2].resp), "Body") = <<>>)
           => /\ {f.name : f \in files} = {F1 \o KqlSuffix}
              /\ exported_count = 1 /\ failed_count = 1 /\ exit_code = 0

\* C2 witness: the run over [F1, F2] ended, F1 had a valid answer and was
\* written, F2's answer had no body
C2_Witness ==
    /\ driver = "function" /\ pc = "done" /\ listing = <<F1, F2>>
    /\ ValidAnswer(seen[1].resp) /\ WriteSucceeded(F1 \o KqlSuffix)
    /\ DictOf(seen[2].resp) # <<>> /\ Get(DictOf(seen[2].resp), "Body") = <<>>
    /\ Get(DictOf(seen[2].resp), "Name") = F2

\* C3: the exit code is 0 if and only if the run exported at least one object
\* file, and 1 in every other outcome
C3_ExitCode ==
    IF pc = "done"
    THEN exit_code \in {0, 1} /\ (exit_code = 0 <=> files # {})
    ELSE exit_code = -1

\* C3 witness: a table run ended with exit code 0 although a write failed
C3_Witness ==
    /\ pc = "done" /\ driver = "table" /\ exit_code = 0
    /\ export_failed_count > 0 /\ Cardinality(files) = 1

\* a run-level fatal condition happened: authentication or directory creation
\* failed, the listing failed, or the listing was empty
FatalCondition ==
    \E i \in DOMAIN log :
        \/ log[i][1] = "authenticate" /\ ~log[i][2]
        \/ log[i][1] = "makedirs" /\ ~log[i][2]
        \/ log[i][1] = "list" /\ log[i][2] = "api_error"
        \/ log[i][1] = "list" /\ log[i][2] = "names" /\ listing = <<>>

\* C4: after a run-level fatal condition no file and no README is written, no
\* detail fetch is issued and the run ends with exit code 1 (the table driver
\* passes through its empty loop first)
C4_FatalWritesNothing ==
    FatalCondition =>
        /\ files = {} /\ readme = <<>>
        /\ \A i \in DOMAIN log : log[i][1] \notin {"fetch", "write", "readme"}
        /\ \/ pc = "done" /\ exit_code = 1
           \/ driver = "table" /\ pc = "loop" /\ listing = <<>> /\ exit_code = -1

\* C4 witness: a table run ended on an empty listing
C4_Witness ==
    /\ driver = "table" /\ pc = "done" /\ listing = <<>>
    /\ \E i \in DOMAIN log : log[i][1] = "list" /\ log[i][2] = "names"

\* C5: in the function exporter every written file holds a statement that was
\* assembled without error for a listed object and that the validator accepts,
\* under that object's name; an object whose fetch, required data, assembly or
\* validation failed has no file
C5_WrittenOnlyIfValid ==
    driver = "function" =>
        /\ \A f \in files :
            \E i \in DOMAIN seen :
                LET d == DictOf(seen[i].resp)
                    b == BuildFunctionKql(d)
                IN  /\ d # <<>>
                    /\ f.name = Get(d, "Name") \o KqlSuffix
                    /\ b.error = ""
                    /\ f.content = b.kql
                    /\ ValidateKqlFunction(f.content, Get(d, "Name")).valid
        /\ \A i \in DOMAIN seen :
            ~ValidAnswer(seen[i].resp) => ~Written(seen[i].name \o KqlSuffix)

\* C5 witness: one object was written and another failed validation
C5_Witness ==
    /\ driver = "function" /\ pc = "done" /\ files # {}
    /\ \E i \in DOMAIN seen : seen[i].why = "validation"

---------------------------------------------------------------------------
(* Properties of parse_parameters_field (specification SpecParse).         *)

\* every ")" of s closes an earlier "(" and every "(" is closed
Balanced(s) ==
    /\ Count(s, "(") = Count(s, ")")
    /\ \A i \in DOMAIN s : Count(SubSeq(s, 1, i), "(") >= Count(SubSeq(s, 1, i), ")")

\* the ")" matching the first "(" of s: the first index at which the text from
\* that "(" on has as many ")" as "("
MatchOfFirst(s) ==
    LET open == Find(s, "(")
        closes == {j \in (open + 1)..Len(s) :
                      Count(SubSeq(s, open, j), "(") = Count(SubSeq(s, open, j), ")")}
    IN  CHOOSE j \in closes : \A k \in closes : j <= k

\* the text between the first "(" of s and its matching ")"
Between(s) == SubSeq(s, Find(s, "(") + 1, MatchOfFirst(s) - 1)

\* C6 as stated: for a parametersField with balanced parentheses and a "(" the
\* result is exactly the text between the first "(" and its matching ")"
C6_ExactContent ==
    (ret # <<>> /\ Find(arg, "(") # 0 /\ Balanced(arg)) => ret[1] = Between(arg)

\* C6 amended: for a parametersField with balanced parentheses and a "(" the
\* result is the text between the first "(" and its matching ")", found by
\* depth counting whatever the nesting, with the whitespace at its two ends
\* removed
C6_TrimmedContent ==
    (ret # <<>> /\ Find(arg, "(") # 0 /\ Balanced(arg)) => ret[1] = Strip(Between(arg))

\* C6 witness: the result of a balanced field holds an inner ")", which the
\* scan passed
C6_Witness ==
    /\ ret # <<>> /\ Find(arg, "(") # 0 /\ Balanced(arg)
    /\ Count(ret[1], ")") > 0 /\ Count(ret[1], "a") > 0

---------------------------------------------------------------------------
(* Properties of build_function_kql (specification SpecBuild).             *)

\* the trimmed body begins with "{" and ends with "}"
Wrapped(body) == StartsWith(Strip(body), <<"{">>) /\ EndsWith(Strip(body), <<"}">>)

\* the body without one outer brace pair when it has one, else the trimmed body
Interior(body) ==
    IF Wrapped(body) THEN Strip(SubSeq(Strip(body), 2, Len(Strip(body)) - 1))
    ELSE Strip(body)

\* no brace reaches the statement from outside the body: the name, folder,
\* docstring and Parameters field have none and no parameter is read from the
\* body
BracesFromBodyOnly(d) ==
    /\ \A c \in {"{", "}"} :
        Count(d.Name, c) + Count(d.Folder, c) + Count(d.DocString, c)
            + Count(d.Parameters, c) = 0
    /\ d.Parameters # <<>> \/ Count(d.Body, "(") = 0

\* C7: the statement ends with the rebuilt opening brace, the body with exactly
\* one outer brace pair removed when its trimmed text begins with "{" and ends
\* with "}" and the trimmed body otherwise, and a closing "}" on its own line;
\* the braces are not doubled: a wrapped body puts as many "{" into the
\* statement as it has itself
C7_OneBracePairStripped ==
    (ret # <<>> /\ ret[1].error = "") =>
        /\ EndsWith(ret[1].kql, <<"{", "\n">> \o Interior(arg.Body) \o <<"\n", "}">>)
        /\ (BracesFromBodyOnly(arg) /\ Wrapped(arg.Body))
                => /\ Count(ret[1].kql, "{") = Count(arg.Body, "{")
                   /\ Count(ret[1].kql, "}") = Count(arg.Body, "}")

\* C7 witness: a body wrapped in two brace pairs was assembled
C7_Witness ==
    /\ ret # <<>> /\ ret[1].error = "" /\ Wrapped(arg.Body)
    /\ Count(arg.Body, "{") = 2 /\ Count(arg.Body, "T") = 1

\* the text before the docstring and the text after it, for a record with a
\* docstring, no folder, no parameters and body T
BeforeDoc == CreatePrefix \o WithPrefix \o DocClausePrefix
AfterDoc == <<"\"", ")", " ">> \o FnName \o <<"(", ")", " ", "{", "\n", "T", "\n", "}">>

\* the docstring text the statement carries
EmittedDoc(kql) == SubSeq(kql, Len(BeforeDoc) + 1, Len(kql) - Len(AfterDoc))

\* each character of the docstring escaped on its own
RECURSIVE EscapedByChar(_)
EscapedByChar(d) ==
    IF d = <<>> THEN <<>>
    ELSE (CASE Head(d) = "\"" -> <<"\\", "\"">>
            [] Head(d) = "\n" -> <<"\\", "n">>
            [] Head(d) = "\r" -> <<>>
            [] OTHER -> <<Head(d)>>) \o EscapedByChar(Tail(d))

\* number of backslashes that end at index i of s
RECURSIVE BackslashRun(_, _)
BackslashRun(s, i) == IF i = 0 \/ s[i] # "\\" THEN 0 ELSE 1 + BackslashRun(s, i - 1)

\* a double quote of s is escaped when an odd number of backslashes precede it
NoUnescapedQuote(s) == \A i \in DOMAIN s : s[i] = "\"" => BackslashRun(s, i - 1) % 2 = 1

\* the record has a docstring and the fixed remainder
DocCase ==
    /\ ret # <<>> /\ arg.DocString # <<>> /\ arg.Name = FnName /\ arg.Body = <<"T">>
    /\ arg.Folder = <<>> /\ arg.Parameters = <<>>

\* C9: the emitted docstring is the docstring with each double quote replaced
\* by backslash-quote, each newline by backslash-n and each carriage return
\* removed; it holds no line break and no unescaped double quote
C9_DocstringEscaped ==
    DocCase =>
        /\ StartsWith(ret[1].kql, BeforeDoc) /\ EndsWith(ret[1].kql, AfterDoc)
        /\ EmittedDoc(ret[1].kql) = EscapedByChar(arg.DocString)
        /\ Count(EmittedDoc(ret[1].kql), "\n") = 0
        /\ Count(EmittedDoc(ret[1].kql), "\r") = 0
        /\ NoUnescapedQuote(EmittedDoc(ret[1].kql))

---------------------------------------------------------------------------
(* Properties of validate_kql_function (specification SpecValidate).       *)

\* C8: a statement whose "{" and "}" counts differ is invalid, a statement
\* whose trimmed text does not end with "}" is invalid, and with the command
\* prefix and the name present differing counts give the unbalanced-braces
\* reason
C8_RejectsUnbalanced ==
    ret # <<>> =>
        /\ Count(arg.kql, "{") # Count(arg.kql, "}") => ~ret[1].valid
        /\ ~EndsWith(Strip(arg.kql), <<"}">>) => ~ret[1].valid
        /\ (/\ StartsWith(Strip(arg.kql), CreatePrefix)
            /\ Contains(arg.kql, arg.name)
            /\ Count(arg.kql, "{") # Count(arg.kql, "}"))
           => ret[1].reason[1] = ReasonBraces

\* C8 witness: a statement with prefix and name that ends with "}" was
\* rejected for its brace counts
C8_Witness ==
    /\ ret # <<>> /\ ~ret[1].valid /\ ret[1].reason[1] = ReasonBraces
    /\ EndsWith(Strip(arg.kql), <<"}">>)

---------------------------------------------------------------------------
(* Properties of _format_schema_definition (specification SpecFormat).     *)

\* s is wrapped in parentheses and has exactly one space after each colon
WellSpaced(s) ==
    /\ StartsWith(s, <<"(">>) /\ EndsWith(s, <<")">>)
    /\ \A i \in DOMAIN s :
        s[i] = ":" => /\ i < Len(s) /\ s[i + 1] = " "
                      /\ (i + 1 < Len(s) => s[i + 2] # " ")

\* C10: formatting a schema string that is parenthesized and has exactly one
\* space after each colon returns it unchanged, so a second formatting of such
\* a first result changes nothing
C10_FormatIdempotent ==
    /\ (Len(ret) >= 1 /\ WellSpaced(arg)) => ret[1] = arg
    /\ (Len(ret) = 2 /\ WellSpaced(ret[1])) => ret[2] = ret[1]

\* C10 witness: the first formatting wrapped and spaced a schema string, the
\* second left the result alone
C10_Witness ==
    /\ Len(ret) = 2 /\ WellSpaced(ret[1]) /\ ret[1] # arg
    /\ Count(arg, ":") > 0 /\ ret[2] = ret[1]


\* C11: for every non-empty schema string the remote reports, the schema
\* definition the formatter returns for the ".create table" statement starts
\* with "(" and ends with ")"
C11_SchemaWrapped ==
    (Len(ret) >= 1 /\ arg # <<>>) =>
        /\ StartsWith(ret[1], <<"(">>)
        /\ EndsWith(ret[1], <<")">>)


---------------------------------------------------------------------------
(* The README of a run (specification Spec).                               *)

\* C12: in both exporters the names listed in the generated README.md are
\* exactly the objects whose .kql file was written in the run, and their
\* number is the exported count of the README summary
C12_ReadmeListsExported ==
    readme # <<>> =>
        LET names == readme[1].names
        IN  /\ \A i \in DOMAIN names : WriteSucceeded(names[i] \o KqlSuffix)
            /\ \A n \in ObjNames :
                WriteSucceeded(n \o KqlSuffix) => \E i \in DOMAIN names : names[i] = n
            /\ Len(names) = readme[1].exported


---------------------------------------------------------------------------
(* The order of the remote calls and file writes of a run (Spec).          *)

\* number of listing requests issued so far
ListCalls == Cardinality({i \in DOMAIN log : log[i][1] = "list"})

\* the objects whose details were fetched, in the order of the fetches
FetchOrder ==
    LET fetches == SelectSeq(log, LAMBDA e : e[1] = "fetch")
    IN  [i \in DOMAIN fetches |-> fetches[i][2]]

\* the files write_file was called for, in the order of the calls
WriteOrder ==
    LET writes == SelectSeq(log, LAMBDA e : e[1] = "write")
    IN  [i \in DOMAIN writes |-> writes[i][2]]

\* position of object n in the listing
ListingIndex(n) == CHOOSE i \in DOMAIN listing : listing[i] = n

\* the listing is requested at most once, exactly once in a run that got
\* past the listing step, and the details are fetched in listing order
ListedOnceFetchedInOrder ==
    /\ ListCalls <= 1
    /\ (listing # <<>> \/ pc \in {"loop", "write", "readme", "summary"}) => ListCalls = 1
    /\ FetchOrder = SubSeq(listing, 1, idx)

\* no file of an object is written after the detail fetch of a later object
WriteBeforeNextFetch ==
    \A p, q \in DOMAIN log :
        (p < q /\ log[p][1] = "fetch" /\ log[q][1] = "write") =>
            ~\E i, j \in DOMAIN listing :
                /\ i < j
                /\ listing[j] = log[p][2]
                /\ listing[i] \o KqlSuffix = log[q][2]

\* every detail fetch comes before every file write
AllFetchesBeforeWrites ==
    \A p, q \in DOMAIN log : (log[p][1] = "fetch" /\ log[q][1] = "write") => p < q

\* the files are written in listing order
WritesInListingOrder ==
    /\ \A a, b \in DOMAIN create_commands :
        a < b => ListingIndex(create_commands[a][1]) < ListingIndex(create_commands[b][1])
    /\ WriteOrder = [i \in 1..widx |-> create_commands[i][1] \o KqlSuffix]

\* C13 as stated: in both drivers the listing is requested exactly once and
\* the objects are processed one at a time in listing order, the fetch,
\* reconstruction and file write of object i all done before the detail fetch
\* of object i+1 is issued
C13_WholePipelinePerObject ==
    /\ ListedOnceFetchedInOrder
    /\ WriteBeforeNextFetch

\* C13 as the code has it: in both drivers the listing is requested exactly
\* once and the details are fetched one at a time in listing order; the
\* function driver finishes the whole pipeline of object i, file write
\* included, before the detail fetch of object i+1; the table driver fetches
\* and reconstructs every listed table first and writes the files of the
\* processed tables afterwards, one at a time in listing order
C13_PipelinePerDriver ==
    /\ ListedOnceFetchedInOrder
    /\ driver = "function" => WriteBeforeNextFetch
    /\ driver = "table" => AllFetchesBeforeWrites /\ WritesInListingOrder

\* C13 witness: a table run fetched two tables and then wrote their two files
C13_Witness ==
    /\ driver = "table" /\ pc = "done"
    /\ Len(FetchOrder) = 2 /\ Len(WriteOrder) = 2
    /\ log[Len(log) - 2][1] = "write" /\ log[Len(log) - 3][1] = "fetch"


---------------------------------------------------------------------------
(* get_function_details as the function driver calls it (Spec).            *)

\* C14: get_function_details tries named access (to_dict) first and positional
\* access only if that fails; when the first works the second is never tried;
\* when both fail or no row came back it returns None and raises nothing; a
\* remote API error of the detail query propagates, and the driver counts the
\* function as failed
C14_DetailAccessOrder ==
    driver = "function" =>
        \A i \in DOMAIN seen :
            LET r == seen[i].resp
                d == seen[i].details
            IN  /\ r.kind = "row" =>
                    /\ d.tried # <<>> /\ d.tried[1] = "to_dict"
                    /\ ~d.raised
                    /\ r.to_dict_ok =>
                        /\ d.tried = <<"to_dict">>
                        /\ d.value = <<RowDict(FunctionColumns, r.row)>>
                    /\ ~r.to_dict_ok =>
                        /\ d.tried = <<"to_dict", "indexed">>
                        /\ d.value = IF r.indexed_ok
                                     THEN <<RowDict(FunctionColumns, r.row)>> ELSE <<>>
                /\ r.kind = "no_rows" => d.tried = <<>> /\ d.value = <<>> /\ ~d.raised
                /\ (~d.raised /\ d.value = <<>>) =>
                    seen[i].status = "failed" /\ seen[i].why = "no_details"
                /\ r.kind = "api_error" =>
                    /\ d.raised /\ d.tried = <<>>
                    /\ seen[i].status = "failed" /\ seen[i].why = "api_error"
                /\ d.raised => r.kind = "api_error"

\* C14 witness: for the first function to_dict failed and positional access
\* gave the dict, which was exported; the detail query of the second raised a
\* remote API error and the function was counted as failed
C14_Witness ==
    /\ driver = "function" /\ pc = "done" /\ Len(seen) = 2
    /\ seen[1].details.tried = <<"to_dict", "indexed">>
    /\ seen[1].details.value # <<>> /\ seen[1].status = "exported"
    /\ seen[2].details.raised /\ seen[2].status = "failed"
    /\ exported_count = 1 /\ failed_count = 1


---------------------------------------------------------------------------
(* The order of the checks of validate_kql_function (SpecValidate).        *)

\* the four checks on the validated statement
PrefixHolds == StartsWith(Strip(arg.kql), CreatePrefix)
NameHolds == Contains(arg.kql, arg.name)
BracesHold == Count(arg.kql, "{") = Count(arg.kql, "}")
EndHolds == EndsWith(Strip(arg.kql), <<"}">>)

\* C15: validate_kql_function returns valid iff prefix, name presence,
\* brace-count equality and trailing "}" all hold, and otherwise the reason of
\* the first check violated in that order; the four reasons are pairwise
\* distinct
C15_FirstViolatedCheck ==
    /\ Cardinality({ReasonPrefix, ReasonName, ReasonBraces, ReasonEnd}) = 4
    /\ ReasonValid \notin {ReasonPrefix, ReasonName, ReasonBraces, ReasonEnd}
    /\ ret # <<>> =>
        /\ ret[1].valid <=> (PrefixHolds /\ NameHolds /\ BracesHold /\ EndHolds)
        /\ ret[1].valid <=> ret[1].reason[1] = ReasonValid
        /\ ~PrefixHolds => ret[1].reason[1] = ReasonPrefix
        /\ (PrefixHolds /\ ~NameHolds) => ret[1].reason = <<ReasonName, arg.name>>
        /\ (PrefixHolds /\ NameHolds /\ ~BracesHold) =>
            ret[1].reason = <<ReasonBraces, <<Count(arg.kql, "{"), Count(arg.kql, "}")>>>>
        /\ (PrefixHolds /\ NameHolds /\ BracesHold /\ ~EndHolds) =>
            ret[1].reason[1] = ReasonEnd

\* C15 witness: a statement with the prefix and the name whose braces are
\* unbalanced and which does not end with "}" was rejected for its brace counts
C15_Witness ==
    /\ ret # <<>> /\ PrefixHolds /\ NameHolds /\ ~BracesHold /\ ~EndHolds
    /\ arg.name = <<"g">>
    /\ ~ret[1].valid /\ ret[1].reason[1] = ReasonBraces


---------------------------------------------------------------------------
(* The counters of a run (specification Spec).                             *)

\* C16: in the function driver, after every loop iteration exported_count +
\* failed_count is the number of listed functions processed so far and
\* exported_count is the length of the exported-names list, each processed
\* function counting once as exported or failed, so that at the end exported
\* + failed is the number listed; in the table driver the reported exported +
\* total failed is the number of listed tables
C16_CounterConservation ==
    /\ driver = "function" =>
        /\ exported_count + failed_count = idx
        /\ exported_count = Len(exported_functions)
        /\ \A i \in DOMAIN seen : seen[i].status \in {"exported", "failed"}
        /\ exported_count = Cardinality({i \in DOMAIN seen : seen[i].status = "exported"})
        /\ failed_count = Cardinality({i \in DOMAIN seen : seen[i].status = "failed"})
        /\ pc \in {"readme", "summary"} => exported_count + failed_count = Len(listing)
        /\ readme # <<>> => readme[1].exported + readme[1].failed = Len(listing)
    /\ driver = "table" =>
        /\ Len(create_commands) + failed_count = idx
        /\ exported_count + export_failed_count = widx
        /\ pc \in {"readme", "summary"} =>
            /\ exported_count + (failed_count + export_failed_count) = Len(listing)
            /\ Len(create_commands) + failed_count = Len(listing)
        /\ readme # <<>> => readme[1].exported + readme[1].failed = Len(listing)

\* C16 witness: a function run over two listed functions ended with one
\* exported and one failed
C16_Witness ==
    /\ driver = "function" /\ pc = "done" /\ Len(listing) = 2
    /\ exported_count = 1 /\ failed_count = 1 /\ Len(exported_functions) = 1
    /\ seen[1].why = "validation"


---------------------------------------------------------------------------
(* Assembler and validator together (specification SpecBuild).             *)

\* C17: for every metadata record with non-empty name and body the statement
\* build_function_kql returns starts with ".create-or-alter function",
\* contains the function name and ends with "}", so validate_kql_function
\* rejects an assembled statement only for unbalanced braces and accepts every
\* assembled statement with as many "{" as "}"
C17_AssemblerValidatorAgree ==
    (ret # <<>> /\ Get(arg, "Name") # <<>> /\ Get(arg, "Body") # <<>>) =>
        /\ ret[1].error = ""
        /\ StartsWith(ret[1].kql, CreatePrefix)
        /\ Contains(ret[1].kql, Get(arg, "Name"))
        /\ EndsWith(ret[1].kql, <<"}">>)
        /\ Len(ret) = 2 =>
            /\ ret[2].reason[1] \in {ReasonValid, ReasonBraces}
            /\ ~ret[2].valid => ret[2].reason[1] = ReasonBraces
            /\ Count(ret[1].kql, "{") = Count(ret[1].kql, "}") => ret[2].valid

\* C17 witness: the statement assembled for function g from a body with a
\* stray "}" was rejected by the validator, for its brace counts
C17_Witness ==
    /\ Len(ret) = 2 /\ Get(arg, "Name") = F3
    /\ Count(Get(arg, "Body"), "}") > Count(Get(arg, "Body"), "{")
    /\ ~ret[2].valid /\ ret[2].reason[1] = ReasonBraces

==========================================================================
